---------------------------- MODULE Spec2Model ----------------------------
(***************************************************************************)
(* Model of the ZooKeeper metrics module of the Cloudera exporter.         *)
(*                                                                         *)
(*   - src/collector/zookeeper.go : ScrapeZookeeperMetrics.Scrape and      *)
(*     createZKMetric, run over the binding table                          *)
(*     zkQueryVariableRelationship and writing samples to a channel;       *)
(*   - src/unnamed/part_000 : ZookeeperCollector with Describe, Collect    *)
(*     and fetchMetric.                                                    *)
(*                                                                         *)
(* zookeeper.go holds two revisions of the module one after the other      *)
(* (lines 1-199 with four bindings, lines 201-493 with fourteen); Scrape   *)
(* and the per-binding function are the same in both, and the model        *)
(* follows the later one.  A run of Spec exercises one entry point: a      *)
(* Scrape invocation, or the collector's Describe and Collect calls.  A    *)
(* run of ConcSpec has two Scrape invocations writing to one channel.      *)
(*                                                                         *)
(* make_and_parse_timeseries_query and the json_parser (jp) accessors are  *)
(* called by zookeeper.go but are not part of the source files; they are   *)
(* modelled from the specification and from the comments at their call     *)
(* sites.                                                                  *)
(***************************************************************************)
EXTENDS Integers, Sequences, FiniteSets, TLC

VARIABLES
    entry,            \* the entry point this run exercises
    \* ---- environment of a Scrape invocation
    ctxDone,          \* the context passed to Scrape has been cancelled
    cancelPoint,      \* where Scrape stood when the context was cancelled
    consumerStopped,  \* the reader of the output channel has stopped reading
    \* ---- ScrapeZookeeperMetrics.Scrape / createZKMetric
    pc,               \* position of the Scrape invocation
    i,                \* index of the current binding (for i := range ...)
    jsonParsed,       \* response of the current query (sequence of series)
    tsIndex,          \* loop variable of createZKMetric (0-based)
    sample,           \* the sample createZKMetric is about to write
    successQueries,
    errorQueries,
    emitted,          \* samples written to the channel, in order
    scrapeRet,        \* return value of Scrape
    \* ---- history of the invocation
    attempted,        \* bindings whose query was issued, in order
    failed,           \* bindings for which createZKMetric returned false,
                      \* each with the call that failed
    expected,         \* samples of the bindings whose query succeeded
    \* ---- ZookeeperCollector (Describe, Collect, fetchMetric)
    cpc,              \* position of the Collect call
    metricIdx,        \* which of Collect's fetches is running (1..4)
    httpResp,         \* the response client.Do returned to fetchMetric
    openBodies,       \* response bodies obtained and not yet closed
    collected,        \* samples the current Collect call has sent
    described,        \* descriptors the last Describe call has sent
    fetched,          \* the last finished fetchMetric call: answer and result
    \* ---- Scrape invocations running concurrently on one channel
    frames,           \* the local variables of each invocation
    chanLog,          \* what the channel's reader has received, in order,
                      \* each sample with the invocation that wrote it
    expectedBy,       \* per invocation: samples of its answered queries
    failedBy          \* per invocation: bindings that returned false

scrapeVars == <<ctxDone, cancelPoint, consumerStopped, pc, i, jsonParsed,
                tsIndex, sample, successQueries, errorQueries, emitted,
                scrapeRet, attempted, failed, expected>>

collectorVars == <<cpc, metricIdx, httpResp, openBodies, collected,
                   described, fetched>>

concVars == <<frames, chanLog, expectedBy, failedBy>>

vars == <<entry, scrapeVars, collectorVars, concVars>>

(***************************************************************************)
(* Bounds of the model.                                                    *)
(***************************************************************************)
\* Scrape is run over the last NumBindings entries of the binding table.
NumBindings == 3
\* Largest number of series in one query response.
MaxSeries == 2

(***************************************************************************)
(* Upstream data: series, data points, responses.                          *)
(***************************************************************************)
NoResponse == <<>>

Point(t, v) == [timestamp |-> t, value |-> v]

\* Queries of the aggregate bindings (the "across clusters" constants).
AggregateQueries ==
    {"ZK_ALERTS_RATE_ACROSS_CLUSTERS", "ZK_TOTAL_ALERTS_RATE_ACROSS_CLUSTERS"}

\* The entity name upstream reports for a series: aggregate queries are not
\* scoped to an entity and carry none.
EntityOf(query) == IF query \in AggregateQueries THEN "" ELSE "zk1"

\* The data-point lists of a series: no point, or two points that are not
\* in timestamp order (the later point comes first).
NoData == <<>>
TwoPoints == <<Point(2, 2), Point(1, 3)>>
DataLists == {NoData, TwoPoints}

\* The series a query can return.
SeriesOf(query) ==
    { [clusterName |-> "C1", entityName |-> EntityOf(query), data |-> d] :
        d \in DataLists }

\* The responses to a query: up to MaxSeries series.
Responses(query) == UNION { [1..n -> SeriesOf(query)] : n \in 0..MaxSeries }

(***************************************************************************)
(* Descriptors and the binding table.                                      *)
(***************************************************************************)
namespace == "cloudera"
ZK_SCRAPER_NAME == "zookeeper"

\* prometheus.BuildFQName joins its non-empty parts with "_"; the parts are
\* kept as a tuple.
BuildFQName(ns, subsystem, name) == <<ns, subsystem, name>>

\* A descriptor declared with the cluster label only.
createZKMetricStructOneLabel(metricName) ==
    [fqName |-> BuildFQName(namespace, ZK_SCRAPER_NAME, metricName),
     variableLabels |-> <<"cluster">>]

createZKMetricStruct(metricName) ==
    [fqName |-> BuildFQName(namespace, ZK_SCRAPER_NAME, metricName),
     variableLabels |-> <<"cluster", "entityName">>]

zkQueryVariableRelationship ==
    << [Query |-> "ZK_ALERTS_RATE",
        Metric_struct |-> createZKMetricStruct("alerts_rate")],
       [Query |-> "ZK_CANARY_DURATION",
        Metric_struct |-> createZKMetricStruct("canary_duration_ms")],
       [Query |-> "ZK_CURRENT_EPOCH_RATE",
        Metric_struct |-> createZKMetricStruct("current_epoch_rate")],
       [Query |-> "ZK_CURRENT_XID",
        Metric_struct |-> createZKMetricStruct("current_xid")],
       [Query |-> "ZK_EVENTS_CRITICAL_RATE",
        Metric_struct |-> createZKMetricStruct("events_critical_rate")],
       [Query |-> "ZK_EVENTS_IMPORTANT_RATE",
        Metric_struct |-> createZKMetricStruct("events_important_rate")],
       [Query |-> "ZK_EVENTS_INFORMATIONAL_RATE",
        Metric_struct |-> createZKMetricStruct("events_informational_rate")],
       [Query |-> "ZK_HEALTH_BAD_RATE",
        Metric_struct |-> createZKMetricStruct("health_bad_rate")],
       [Query |-> "ZK_HEALTH_CONCERNING_RATE",
        Metric_struct |-> createZKMetricStruct("health_concerning_rate")],
       [Query |-> "ZK_HEALTH_DISABLED_RATE",
        Metric_struct |-> createZKMetricStruct("health_disabled_rate")],
       [Query |-> "ZK_HEALTH_GOOD_RATE",
        Metric_struct |-> createZKMetricStruct("health_good_rate")],
       [Query |-> "ZK_HEALTH_UNKNOWN_RATE",
        Metric_struct |-> createZKMetricStruct("health_unknown_rate")],
       [Query |-> "ZK_ALERTS_RATE_ACROSS_CLUSTERS",
        Metric_struct |-> createZKMetricStruct("alerts_rate_across_servers")],
       [Query |-> "ZK_TOTAL_ALERTS_RATE_ACROSS_CLUSTERS",
        Metric_struct |-> createZKMetricStruct("total_alerts_rate_across_servers")] >>

TableLen == Len(zkQueryVariableRelationship)

\* The bindings a modelled Scrape iterates: the tail of the table, which
\* holds base bindings and both aggregate bindings.
FirstIndex == IF NumBindings >= TableLen THEN 1 ELSE TableLen - NumBindings + 1
ScrapedIndexes == FirstIndex..TableLen
LastIndex == TableLen

(***************************************************************************)
(* json_parser accessors used by createZKMetric.                           *)
(***************************************************************************)
Get_timeseries_query_cluster(json, idx) == json[idx + 1].clusterName
Get_timeseries_query_entity_name(json, idx) == json[idx + 1].entityName

\* The value of the last data point of the series, or an error when the
\* series has no data point.
Get_timeseries_query_value(json, idx) ==
    LET data == json[idx + 1].data
    IN  IF Len(data) = 0
        THEN [err |-> TRUE, value |-> 0]
        ELSE [err |-> FALSE, value |-> data[Len(data)].value]

\* prometheus.MustNewConstMetric: panics unless one value per declared label
\* is supplied.
MustNewConstMetric(desc, value, labelValues) ==
    [desc |-> desc, value |-> value, labelValues |-> labelValues,
     panic |-> Len(labelValues) # Len(desc.variableLabels)]

\* The sample createZKMetric builds for series idx of a response.
ZKSample(desc, json, idx) ==
    MustNewConstMetric(desc,
                       Get_timeseries_query_value(json, idx).value,
                       << Get_timeseries_query_cluster(json, idx),
                          Get_timeseries_query_entity_name(json, idx) >>)

NoSample == [desc |-> <<>>, value |-> 0, labelValues |-> <<>>, panic |-> FALSE]

\* The samples one successful query has to produce: one per series that has
\* a data point, in response order.
RECURSIVE SamplesOf(_, _, _)
SamplesOf(desc, json, idx) ==
    IF idx >= Len(json) THEN <<>>
    ELSE IF Len(json[idx + 1].data) = 0 THEN SamplesOf(desc, json, idx + 1)
    ELSE <<ZKSample(desc, json, idx)>> \o SamplesOf(desc, json, idx + 1)

(***************************************************************************)
(* ScrapeZookeeperMetrics.Scrape and createZKMetric.                       *)
(***************************************************************************)
ScrapeInit ==
    /\ ctxDone = FALSE
    /\ cancelPoint = [pc |-> "none", i |-> 0]
    /\ consumerStopped = FALSE
    /\ pc = "idle"
    /\ i = 0
    /\ jsonParsed = NoResponse
    /\ tsIndex = 0
    /\ sample = NoSample
    /\ successQueries = 0
    /\ errorQueries = 0
    /\ emitted = <<>>
    /\ scrapeRet = "none"
    /\ attempted = <<>>
    /\ failed = {}
    /\ expected = <<>>

\* Scrape is called: the counters are zeroed and the loop starts.
ScrapeStart ==
    /\ entry = "Scrape"
    /\ pc = "idle"
    /\ pc' = "query"
    /\ i' = FirstIndex
    /\ successQueries' = 0
    /\ errorQueries' = 0
    /\ UNCHANGED <<entry, concVars, collectorVars, ctxDone, cancelPoint, consumerStopped, jsonParsed,
                   tsIndex, sample, emitted, scrapeRet, attempted, failed,
                   expected>>

\* The loop "for i := range zkQueryVariableRelationship" moves on after
\* createZKMetric returned for binding idx.
AfterBinding(idx) ==
    IF idx < LastIndex
    THEN /\ i' = idx + 1
         /\ pc' = "query"
    ELSE /\ i' = idx
         /\ pc' = "exit"

\* A Scrape that gives up at the first failed query.
QueryFailsAborts ==
    /\ entry = "Scrape"
    /\ pc = "query"
    /\ attempted' = Append(attempted, i)
    /\ failed' = failed \cup {[binding |-> i, call |-> "query"]}
    /\ errorQueries' = errorQueries + 1
    /\ i' = i
    /\ pc' = "exit"
    /\ UNCHANGED <<entry, concVars, collectorVars, ctxDone, cancelPoint, consumerStopped,
                   jsonParsed, tsIndex, sample, successQueries, emitted,
                   scrapeRet, expected>>

\* make_and_parse_timeseries_query fails: on a cancelled context always,
\* otherwise when the upstream call fails.
QueryFails ==
    /\ entry = "Scrape"
    /\ pc = "query"
    /\ attempted' = Append(attempted, i)
    /\ failed' = failed \cup {[binding |-> i, call |-> "query"]}
    /\ errorQueries' = errorQueries + 1
    /\ AfterBinding(i)
    /\ UNCHANGED <<entry, concVars, collectorVars, ctxDone, cancelPoint, consumerStopped, jsonParsed,
                   tsIndex, sample, successQueries, emitted, scrapeRet,
                   expected>>

\* The query is answered but jp.Get_timeseries_num reports an error.
SeriesCountFails ==
    /\ entry = "Scrape"
    /\ pc = "query"
    /\ ~ctxDone
    /\ attempted' = Append(attempted, i)
    /\ failed' = failed \cup {[binding |-> i, call |-> "num"]}
    /\ errorQueries' = errorQueries + 1
    /\ AfterBinding(i)
    /\ UNCHANGED <<entry, concVars, collectorVars, ctxDone, cancelPoint, consumerStopped, jsonParsed,
                   tsIndex, sample, successQueries, emitted, scrapeRet,
                   expected>>

\* The query is answered with numTsSeries series; the loop over them starts.
QuerySucceeds ==
    /\ entry = "Scrape"
    /\ pc = "query"
    /\ ~ctxDone
    /\ \E r \in Responses(zkQueryVariableRelationship[i].Query) :
         /\ jsonParsed' = r
         /\ expected' = expected \o
                SamplesOf(zkQueryVariableRelationship[i].Metric_struct, r, 0)
    /\ tsIndex' = 0
    /\ attempted' = Append(attempted, i)
    /\ pc' = "series"
    /\ UNCHANGED <<entry, concVars, collectorVars, ctxDone, cancelPoint, consumerStopped, i, sample,
                   successQueries, errorQueries, emitted, scrapeRet, failed>>

\* jp.Get_timeseries_query_value fails for the series: "continue".
SkipSeries ==
    /\ entry = "Scrape"
    /\ pc = "series"
    /\ tsIndex < Len(jsonParsed)
    /\ Get_timeseries_query_value(jsonParsed, tsIndex).err
    /\ tsIndex' = tsIndex + 1
    /\ UNCHANGED <<entry, concVars, collectorVars, ctxDone, cancelPoint, consumerStopped, pc, i,
                   jsonParsed, sample, successQueries, errorQueries, emitted,
                   scrapeRet, attempted, failed, expected>>

\* The series has a value: prometheus.MustNewConstMetric builds the sample.
BuildSample ==
    /\ entry = "Scrape"
    /\ pc = "series"
    /\ tsIndex < Len(jsonParsed)
    /\ ~Get_timeseries_query_value(jsonParsed, tsIndex).err
    /\ LET m == ZKSample(zkQueryVariableRelationship[i].Metric_struct,
                         jsonParsed, tsIndex)
       IN  /\ sample' = m
           /\ pc' = IF m.panic THEN "panic" ELSE "send"
    /\ UNCHANGED <<entry, concVars, collectorVars, ctxDone, cancelPoint, consumerStopped, i, jsonParsed,
                   tsIndex, successQueries, errorQueries, emitted, scrapeRet,
                   attempted, failed, expected>>

\* "ch <- sample": a plain channel send, which completes when the reader
\* of the channel takes the sample.
SendSample ==
    /\ entry = "Scrape"
    /\ pc = "send"
    /\ ~consumerStopped
    /\ emitted' = Append(emitted, sample)
    /\ sample' = NoSample
    /\ tsIndex' = tsIndex + 1
    /\ pc' = "series"
    /\ UNCHANGED <<entry, concVars, collectorVars, ctxDone, cancelPoint, consumerStopped, i, jsonParsed,
                   successQueries, errorQueries, scrapeRet, attempted, failed,
                   expected>>

\* A createZKMetric whose result depends on the samples written: a binding
\* that wrote no sample is counted as an error.
ReturnTrueNeedsSamples ==
    /\ entry = "Scrape"
    /\ pc = "series"
    /\ tsIndex >= Len(jsonParsed)
    /\ IF SamplesOf(zkQueryVariableRelationship[i].Metric_struct,
                    jsonParsed, 0) = <<>>
       THEN /\ errorQueries' = errorQueries + 1
            /\ successQueries' = successQueries
       ELSE /\ successQueries' = successQueries + 1
            /\ errorQueries' = errorQueries
    /\ jsonParsed' = NoResponse
    /\ tsIndex' = 0
    /\ AfterBinding(i)
    /\ UNCHANGED <<entry, concVars, collectorVars, ctxDone, cancelPoint,
                   consumerStopped, sample, emitted, scrapeRet, attempted,
                   failed, expected>>

\* The loop over the series ends: createZKMetric returns true.
ReturnTrue ==
    /\ entry = "Scrape"
    /\ pc = "series"
    /\ tsIndex >= Len(jsonParsed)
    /\ successQueries' = successQueries + 1
    /\ jsonParsed' = NoResponse
    /\ tsIndex' = 0
    /\ AfterBinding(i)
    /\ UNCHANGED <<entry, concVars, collectorVars, ctxDone, cancelPoint, consumerStopped, sample,
                   errorQueries, emitted, scrapeRet, attempted, failed,
                   expected>>

\* After the loop: the tally is logged and Scrape returns nil.
ScrapeReturn ==
    /\ entry = "Scrape"
    /\ pc = "exit"
    /\ scrapeRet' = "nil"
    /\ pc' = "done"
    /\ UNCHANGED <<entry, concVars, collectorVars, ctxDone, cancelPoint, consumerStopped, i, jsonParsed,
                   tsIndex, sample, successQueries, errorQueries, emitted,
                   attempted, failed, expected>>

\* The steps Scrape itself can take.
ScrapeStep ==
    \/ ScrapeStart
    \/ QueryFails
    \/ SeriesCountFails
    \/ QuerySucceeds
    \/ SkipSeries
    \/ BuildSample
    \/ SendSample
    \/ ReturnTrue
    \/ ScrapeReturn

\* The caller cancels the context.
CancelContext ==
    /\ entry = "Scrape"
    /\ ~ctxDone
    /\ pc # "done"
    /\ ctxDone' = TRUE
    /\ cancelPoint' = [pc |-> pc, i |-> i]
    /\ UNCHANGED <<entry, concVars, collectorVars, consumerStopped, pc, i, jsonParsed, tsIndex, sample,
                   successQueries, errorQueries, emitted, scrapeRet, attempted,
                   failed, expected>>

\* The reader of the output channel stops reading.
ConsumerStops ==
    /\ entry = "Scrape"
    /\ ~consumerStopped
    /\ pc # "done"
    /\ consumerStopped' = TRUE
    /\ UNCHANGED <<entry, concVars, collectorVars, ctxDone, cancelPoint, pc, i, jsonParsed, tsIndex,
                   sample, successQueries, errorQueries, emitted, scrapeRet,
                   attempted, failed, expected>>

(***************************************************************************)
(* ZookeeperCollector: NewZookeeperCollector, Describe, Collect and        *)
(* fetchMetric.                                                            *)
(***************************************************************************)
\* prometheus.NewDesc with no constant labels.
NewDesc(fqName, variableLabels) ==
    [fqName |-> fqName, variableLabels |-> variableLabels]

NewZookeeperCollector ==
    [alertsRate |-> NewDesc("zookeeper_alerts_rate", <<"cluster">>),
     canaryDuration |-> NewDesc("zookeeper_canary_duration_ms", <<"cluster">>),
     currentEpochRate |-> NewDesc("zookeeper_current_epoch_rate", <<"cluster">>),
     currentXid |-> NewDesc("zookeeper_current_xid", <<"cluster">>),
     eventsCriticalRate |->
         NewDesc("zookeeper_events_critical_rate", <<"cluster">>),
     eventsImportantRate |->
         NewDesc("zookeeper_events_important_rate", <<"cluster">>),
     eventsInformationalRate |->
         NewDesc("zookeeper_events_informational_rate", <<"cluster">>),
     healthBadRate |-> NewDesc("zookeeper_health_bad_rate", <<"cluster">>),
     healthConcerningRate |->
         NewDesc("zookeeper_health_concerning_rate", <<"cluster">>),
     healthDisabledRate |->
         NewDesc("zookeeper_health_disabled_rate", <<"cluster">>),
     healthGoodRate |-> NewDesc("zookeeper_health_good_rate", <<"cluster">>),
     healthUnknownRate |->
         NewDesc("zookeeper_health_unknown_rate", <<"cluster">>),
     alertsRateAcrossClusters |->
         NewDesc("zookeeper_alerts_rate_across_clusters", <<>>),
     totalAlertsRateAcrossClusters |->
         NewDesc("zookeeper_total_alerts_rate_across_clusters", <<>>)]

\* The collector the registry holds; its fields are never assigned after
\* construction.
zc == NewZookeeperCollector

\* A Describe that leaves out the descriptor of canary_duration.
DescribeSendsWithoutCanary ==
    << zc.alertsRate, zc.currentEpochRate, zc.currentXid,
       zc.eventsCriticalRate, zc.eventsImportantRate,
       zc.eventsInformationalRate, zc.healthBadRate, zc.healthConcerningRate,
       zc.healthDisabledRate, zc.healthGoodRate, zc.healthUnknownRate,
       zc.alertsRateAcrossClusters, zc.totalAlertsRateAcrossClusters >>

\* A Describe that follows the live data: once samples were collected it
\* sends the descriptors of those samples only.
DescribeSendsLive ==
    IF collected = <<>>
    THEN << zc.alertsRate, zc.canaryDuration, zc.currentEpochRate,
            zc.currentXid, zc.eventsCriticalRate, zc.eventsImportantRate,
            zc.eventsInformationalRate, zc.healthBadRate,
            zc.healthConcerningRate, zc.healthDisabledRate,
            zc.healthGoodRate, zc.healthUnknownRate,
            zc.alertsRateAcrossClusters, zc.totalAlertsRateAcrossClusters >>
    ELSE [k \in 1..Len(collected) |-> collected[k].desc]

\* The descriptors Describe sends, in order.
DescribeSends ==
    << zc.alertsRate, zc.canaryDuration, zc.currentEpochRate, zc.currentXid,
       zc.eventsCriticalRate, zc.eventsImportantRate,
       zc.eventsInformationalRate, zc.healthBadRate, zc.healthConcerningRate,
       zc.healthDisabledRate, zc.healthGoodRate, zc.healthUnknownRate,
       zc.alertsRateAcrossClusters, zc.totalAlertsRateAcrossClusters >>

clusterName == "DemoCluster"

\* The four fetches of Collect: the metric asked for, the cluster scope
\* passed to fetchMetric, the descriptor and the label values of the sample.
CollectPlan ==
    << [metricName |-> "alerts_rate", scope |-> clusterName,
        desc |-> zc.alertsRate, labelValues |-> <<clusterName>>],
       [metricName |-> "alerts_rate_across_clusters", scope |-> "",
        desc |-> zc.alertsRateAcrossClusters, labelValues |-> <<>>],
       [metricName |-> "total_alerts_rate_across_clusters", scope |-> "",
        desc |-> zc.totalAlertsRateAcrossClusters, labelValues |-> <<>>],
       [metricName |-> "canary_duration", scope |-> clusterName,
        desc |-> zc.canaryDuration, labelValues |-> <<clusterName>>] >>

\* Bodies of the upstream answers, decoded as timeSeriesAPIResponse: the
\* series of a response are spread over no item, one item or two items.
\* A body json.Decode rejects has decodes = FALSE.
MalformedBody == [decodes |-> FALSE, Items |-> <<>>]

SeriesLists ==
    UNION { [1..n -> {[Data |-> d] : d \in DataLists}] : n \in 0..MaxSeries }

TsBody(items) == [decodes |-> TRUE, Items |-> items]

TsResponses ==
    {TsBody(<<>>)}
    \cup {TsBody(<<[TimeSeries |-> sl]>>) : sl \in SeriesLists}
    \cup UNION { {TsBody(<<[TimeSeries |-> SubSeq(sl, 1, k)],
                           [TimeSeries |-> SubSeq(sl, k + 1, Len(sl))]>>) :
                     k \in 0..Len(sl)} : sl \in SeriesLists }

\* http.StatusOK
StatusOK == 200
\* The non-success statuses upstream answers with.
ErrorStatuses == {500}

\* What client.Do can return: an error status, or a 200 answer whose body
\* decodes or not.
HttpResponses ==
    {[StatusCode |-> c, Body |-> MalformedBody] : c \in ErrorStatuses}
    \cup {[StatusCode |-> StatusOK, Body |-> b] :
              b \in {MalformedBody} \cup TsResponses}

NoHttpResponse == [StatusCode |-> 0, Body |-> MalformedBody]

\* The value of the data point with the latest timestamp.
LatestPointValue(data) ==
    LET k == CHOOSE k \in 1..Len(data) :
                 \A j \in 1..Len(data) : data[j].timestamp <= data[k].timestamp
    IN  data[k].value

\* The value fetchMetric takes from one series that has data: its last
\* data point, by position.
LastPointValue(data) == data[Len(data)].value

\* The loop over one item's TimeSeries: adds the last value of every series
\* that has data to acc.sum and counts it in acc.count.
RECURSIVE SumSeries(_, _, _)
SumSeries(series, k, acc) ==
    IF k > Len(series) THEN acc
    ELSE IF Len(series[k].Data) = 0 THEN SumSeries(series, k + 1, acc)
    ELSE SumSeries(series, k + 1,
                   [sum |-> acc.sum + LastPointValue(series[k].Data),
                    count |-> acc.count + 1])

\* The loop over tsResp.Items.
RECURSIVE SumItems(_, _, _)
SumItems(items, k, acc) ==
    IF k > Len(items) THEN acc
    ELSE SumItems(items, k + 1, SumSeries(items[k].TimeSeries, 1, acc))

\* A fetchMetric that reads a non-success status as an answer of zero.
fetchMetricResultZeroOnError(resp) ==
    IF resp.StatusCode # StatusOK
    THEN [value |-> 0, err |-> "nil"]
    ELSE IF ~resp.Body.decodes
    THEN [value |-> 0, err |-> "decode error"]
    ELSE LET acc == SumItems(resp.Body.Items, 1, [sum |-> 0, count |-> 0])
         IN  IF acc.count = 0
             THEN [value |-> 0, err |-> "nil"]
             ELSE [value |-> acc.sum, err |-> "nil"]

\* What fetchMetric returns once client.Do has returned a response.
fetchMetricResult(resp) ==
    IF resp.StatusCode # StatusOK
    THEN [value |-> 0, err |-> "non-200 response"]
    ELSE IF ~resp.Body.decodes
    THEN [value |-> 0, err |-> "decode error"]
    ELSE LET acc == SumItems(resp.Body.Items, 1, [sum |-> 0, count |-> 0])
         IN  IF acc.count = 0
             THEN [value |-> 0, err |-> "nil"]
             ELSE [value |-> acc.sum, err |-> "nil"]

NotDescribed == <<>>
NothingFetched ==
    [metricIdx |-> 0, resp |-> NoHttpResponse,
     result |-> [value |-> 0, err |-> "none"], sent |-> FALSE]

CollectorInit ==
    /\ cpc = "ready"
    /\ metricIdx = 0
    /\ httpResp = NoHttpResponse
    /\ openBodies = 0
    /\ collected = <<>>
    /\ described = NotDescribed
    /\ fetched = NothingFetched

\* Describe sends the collector's descriptors; the registry may call it at
\* any time.
Describe ==
    /\ entry = "Collector"
    /\ described' = DescribeSends
    /\ UNCHANGED <<entry, concVars, scrapeVars, cpc, metricIdx, httpResp,
                   openBodies, collected, fetched>>

\* The registry calls Collect: the first fetch starts.
CollectStart ==
    /\ entry = "Collector"
    /\ cpc = "ready"
    /\ cpc' = "fetch"
    /\ metricIdx' = 1
    /\ collected' = <<>>
    /\ fetched' = NothingFetched
    /\ UNCHANGED <<entry, concVars, scrapeVars, httpResp, openBodies, described>>

\* Collect goes on after the fetch of metric k: to the next fetch, or back
\* to the registry after the last one.
AfterFetch(k) ==
    IF k < Len(CollectPlan)
    THEN /\ metricIdx' = k + 1
         /\ cpc' = "fetch"
    ELSE /\ metricIdx' = 0
         /\ cpc' = "ready"

\* A Collect that returns at the first fetch that fails.
FetchNoResponseAborts ==
    /\ entry = "Collector"
    /\ cpc = "fetch"
    /\ fetched' = [metricIdx |-> metricIdx, resp |-> NoHttpResponse,
                   result |-> [value |-> 0, err |-> "transport error"],
                   sent |-> FALSE]
    /\ metricIdx' = 0
    /\ cpc' = "ready"
    /\ UNCHANGED <<entry, concVars, scrapeVars, httpResp, openBodies, collected,
                   described>>

\* fetchMetric returns an error before any response is obtained
\* (http.NewRequest or client.Do fails); Collect sends nothing.
FetchNoResponse ==
    /\ entry = "Collector"
    /\ cpc = "fetch"
    /\ fetched' = [metricIdx |-> metricIdx, resp |-> NoHttpResponse,
                   result |-> [value |-> 0, err |-> "transport error"],
                   sent |-> FALSE]
    /\ AfterFetch(metricIdx)
    /\ UNCHANGED <<entry, concVars, scrapeVars, httpResp, openBodies, collected,
                   described>>

\* client.Do returns a response; its body is open.
FetchResponse ==
    /\ entry = "Collector"
    /\ cpc = "fetch"
    /\ \E r \in HttpResponses : httpResp' = r
    /\ openBodies' = openBodies + 1
    /\ cpc' = "response"
    /\ UNCHANGED <<entry, concVars, scrapeVars, metricIdx, collected, described,
                   fetched>>

\* A fetchMetric that closes the body at its normal return only (no defer).
FetchReturnLeaksOnError ==
    /\ entry = "Collector"
    /\ cpc = "response"
    /\ httpResp' = NoHttpResponse
    /\ LET res == fetchMetricResult(httpResp)
           plan == CollectPlan[metricIdx]
           m == MustNewConstMetric(plan.desc, res.value, plan.labelValues)
       IN  /\ fetched' = [metricIdx |-> metricIdx, resp |-> httpResp,
                          result |-> res, sent |-> (res.err = "nil")]
           /\ openBodies' = IF res.err = "nil" THEN openBodies - 1
                            ELSE openBodies
           /\ IF res.err # "nil"
              THEN /\ collected' = collected
                   /\ AfterFetch(metricIdx)
              ELSE IF m.panic
              THEN /\ collected' = collected
                   /\ cpc' = "panic"
                   /\ metricIdx' = metricIdx
              ELSE /\ collected' = Append(collected, m)
                   /\ AfterFetch(metricIdx)
    /\ UNCHANGED <<entry, concVars, scrapeVars, described>>

\* fetchMetric checks the status, decodes, sums and returns (the deferred
\* Close runs); Collect sends a sample unless fetchMetric returned an error.
FetchReturn ==
    /\ entry = "Collector"
    /\ cpc = "response"
    /\ openBodies' = openBodies - 1
    /\ httpResp' = NoHttpResponse
    /\ LET res == fetchMetricResult(httpResp)
           plan == CollectPlan[metricIdx]
           m == MustNewConstMetric(plan.desc, res.value, plan.labelValues)
       IN  /\ fetched' = [metricIdx |-> metricIdx, resp |-> httpResp,
                          result |-> res, sent |-> (res.err = "nil")]
           /\ IF res.err # "nil"
              THEN /\ collected' = collected
                   /\ AfterFetch(metricIdx)
              ELSE IF m.panic
              THEN /\ collected' = collected
                   /\ cpc' = "panic"
                   /\ metricIdx' = metricIdx
              ELSE /\ collected' = Append(collected, m)
                   /\ AfterFetch(metricIdx)
    /\ UNCHANGED <<entry, concVars, scrapeVars, described>>

(***************************************************************************)
(* Scrape invocations running at the same time.  Each invocation has its   *)
(* own frame (the locals of Scrape and createZKMetric); the binding table  *)
(* and the config are only read; the channel is the one thing they share.  *)
(***************************************************************************)
Invocations == {"first", "second"}

\* Each concurrent invocation is run over the last ConcBindings entries of
\* the table, with responses of at most ConcSeries series.
ConcBindings == 1
ConcSeries == 1

ConcFirstIndex ==
    IF ConcBindings >= TableLen THEN 1 ELSE TableLen - ConcBindings + 1

ConcResponses(query) == {r \in Responses(query) : Len(r) <= ConcSeries}

IdleFrame ==
    [pc |-> "idle", i |-> 0, jsonParsed |-> NoResponse, tsIndex |-> 0,
     sample |-> NoSample, successQueries |-> 0, errorQueries |-> 0]

ConcInit ==
    /\ frames = [p \in Invocations |-> IdleFrame]
    /\ chanLog = <<>>
    /\ expectedBy = [p \in Invocations |-> <<>>]
    /\ failedBy = [p \in Invocations |-> {}]

\* The frame after createZKMetric returned for the frame's binding.
FrameAfterBinding(f) ==
    IF f.i < LastIndex
    THEN [f EXCEPT !.i = f.i + 1, !.pc = "query",
                   !.jsonParsed = NoResponse, !.tsIndex = 0]
    ELSE [f EXCEPT !.pc = "exit", !.jsonParsed = NoResponse, !.tsIndex = 0]

\* Invocation p of Scrape is called.
InvScrapeStart(p) ==
    /\ entry = "Concurrent"
    /\ frames[p].pc = "idle"
    /\ frames' = [frames EXCEPT ![p] =
                     [@ EXCEPT !.pc = "query", !.i = ConcFirstIndex,
                               !.successQueries = 0, !.errorQueries = 0]]
    /\ UNCHANGED <<entry, scrapeVars, collectorVars, chanLog, expectedBy,
                   failedBy>>

\* createZKMetric returns false in invocation p: the query or the series
\* count failed.
InvQueryFails(p) ==
    /\ entry = "Concurrent"
    /\ frames[p].pc = "query"
    /\ frames' = [frames EXCEPT ![p] =
                     FrameAfterBinding(
                         [@ EXCEPT !.errorQueries = @ + 1])]
    /\ failedBy' = [failedBy EXCEPT ![p] = @ \cup {frames[p].i}]
    /\ UNCHANGED <<entry, scrapeVars, collectorVars, chanLog, expectedBy>>

\* The query of invocation p is answered.
InvQuerySucceeds(p) ==
    /\ entry = "Concurrent"
    /\ frames[p].pc = "query"
    /\ \E r \in ConcResponses(zkQueryVariableRelationship[frames[p].i].Query) :
         /\ frames' = [frames EXCEPT ![p] =
                          [@ EXCEPT !.jsonParsed = r, !.tsIndex = 0,
                                    !.pc = "series"]]
         /\ expectedBy' = [expectedBy EXCEPT ![p] = @ \o
                SamplesOf(zkQueryVariableRelationship[frames[p].i].Metric_struct,
                          r, 0)]
    /\ UNCHANGED <<entry, scrapeVars, collectorVars, chanLog, failedBy>>

\* "continue" in invocation p: the series has no value.
InvSkipSeries(p) ==
    /\ entry = "Concurrent"
    /\ frames[p].pc = "series"
    /\ frames[p].tsIndex < Len(frames[p].jsonParsed)
    /\ Get_timeseries_query_value(frames[p].jsonParsed, frames[p].tsIndex).err
    /\ frames' = [frames EXCEPT ![p] = [@ EXCEPT !.tsIndex = @ + 1]]
    /\ UNCHANGED <<entry, scrapeVars, collectorVars, chanLog, expectedBy,
                   failedBy>>

\* Invocation p builds a sample and reaches "ch <- sample".
InvBuildSample(p) ==
    /\ entry = "Concurrent"
    /\ frames[p].pc = "series"
    /\ frames[p].tsIndex < Len(frames[p].jsonParsed)
    /\ ~Get_timeseries_query_value(frames[p].jsonParsed, frames[p].tsIndex).err
    /\ LET m == ZKSample(
                    zkQueryVariableRelationship[frames[p].i].Metric_struct,
                    frames[p].jsonParsed, frames[p].tsIndex)
       IN  frames' = [frames EXCEPT ![p] =
                         [@ EXCEPT !.sample = m,
                                   !.pc = IF m.panic THEN "panic" ELSE "send"]]
    /\ UNCHANGED <<entry, scrapeVars, collectorVars, chanLog, expectedBy,
                   failedBy>>

\* The reader of the channel takes the sample invocation p is waiting to
\* write; of the invocations waiting at "ch <-" one at a time gets through.
InvSendSample(p) ==
    /\ entry = "Concurrent"
    /\ frames[p].pc = "send"
    /\ chanLog' = Append(chanLog, [from |-> p, m |-> frames[p].sample])
    /\ frames' = [frames EXCEPT ![p] =
                     [@ EXCEPT !.sample = NoSample, !.tsIndex = @ + 1,
                               !.pc = "series"]]
    /\ UNCHANGED <<entry, scrapeVars, collectorVars, expectedBy, failedBy>>

\* A success counter that all invocations share.
InvReturnTrueShared(p) ==
    /\ entry = "Concurrent"
    /\ frames[p].pc = "series"
    /\ frames[p].tsIndex >= Len(frames[p].jsonParsed)
    /\ frames' = [q \in Invocations |->
                     IF q = p
                     THEN FrameAfterBinding(
                              [frames[q] EXCEPT !.successQueries = @ + 1])
                     ELSE [frames[q] EXCEPT !.successQueries = @ + 1]]
    /\ UNCHANGED <<entry, scrapeVars, collectorVars, chanLog, expectedBy,
                   failedBy>>

\* createZKMetric returns true in invocation p.
InvReturnTrue(p) ==
    /\ entry = "Concurrent"
    /\ frames[p].pc = "series"
    /\ frames[p].tsIndex >= Len(frames[p].jsonParsed)
    /\ frames' = [frames EXCEPT ![p] =
                     FrameAfterBinding(
                         [@ EXCEPT !.successQueries = @ + 1])]
    /\ UNCHANGED <<entry, scrapeVars, collectorVars, chanLog, expectedBy,
                   failedBy>>

\* Invocation p logs its tally and returns nil.
InvScrapeReturn(p) ==
    /\ entry = "Concurrent"
    /\ frames[p].pc = "exit"
    /\ frames' = [frames EXCEPT ![p] = [@ EXCEPT !.pc = "done"]]
    /\ UNCHANGED <<entry, scrapeVars, collectorVars, chanLog, expectedBy,
                   failedBy>>

ConcStart ==
    /\ entry = "Concurrent"
    /\ ScrapeInit
    /\ CollectorInit
    /\ ConcInit

ConcNext ==
    \/ \E p \in Invocations : InvScrapeStart(p)
    \/ \E p \in Invocations : InvQueryFails(p)
    \/ \E p \in Invocations : InvQuerySucceeds(p)
    \/ \E p \in Invocations : InvSkipSeries(p)
    \/ \E p \in Invocations : InvBuildSample(p)
    \/ \E p \in Invocations : InvSendSample(p)
    \/ \E p \in Invocations : InvReturnTrue(p)
    \/ \E p \in Invocations : InvScrapeReturn(p)

ConcSpec == ConcStart /\ [][ConcNext]_vars

Init ==
    /\ entry \in {"Scrape", "Collector"}
    /\ ScrapeInit
    /\ CollectorInit
    /\ ConcInit

Next ==
    \/ ScrapeStart
    \/ QueryFails
    \/ SeriesCountFails
    \/ QuerySucceeds
    \/ SkipSeries
    \/ BuildSample
    \/ SendSample
    \/ ReturnTrue
    \/ ScrapeReturn
    \/ CancelContext
    \/ ConsumerStops
    \/ Describe
    \/ CollectStart
    \/ FetchNoResponse
    \/ FetchResponse
    \/ FetchReturn

Spec == Init /\ [][Next]_vars

(***************************************************************************)
(* Properties.                                                             *)
(***************************************************************************)
NumScraped == Cardinality(ScrapedIndexes)
FailedBindings == {f.binding : f \in failed}

\* The bindings in table order, as Scrape has to attempt them.
ScrapedInOrder == [k \in 1..NumScraped |-> FirstIndex + k - 1]

\* C1: partial-failure isolation. When Scrape has returned, the channel
\* holds exactly the samples of the bindings whose query succeeded, every
\* binding was attempted, the success counter is N - K and the error counter
\* is K for the K failed bindings, and Scrape returned nil.
C1_PartialFailureIsolation ==
    pc = "done" =>
        /\ emitted = expected
        /\ attempted = ScrapedInOrder
        /\ successQueries = NumScraped - Cardinality(FailedBindings)
        /\ errorQueries = Cardinality(FailedBindings)
        /\ scrapeRet = "nil"

\* Scrape has returned after some, but not all, bindings failed, and the
\* successful ones produced samples.
C1_Witness ==
    /\ pc = "done"
    /\ Cardinality(FailedBindings) > 0
    /\ Cardinality(FailedBindings) < NumScraped
    /\ Len(emitted) > 0

\* C2: cancellation mid-scrape. If the context was cancelled when the first
\* binding had completed and the second had not started, Scrape ends having
\* attempted the first binding only and having emitted its samples only.
C2_CancelStopsFurtherBindings ==
    (pc = "done" /\ cancelPoint = [pc |-> "query", i |-> FirstIndex + 1]) =>
        /\ attempted = <<FirstIndex>>
        /\ emitted = expected

\* C3: a write to the channel does not block for good. When createZKMetric
\* waits to write a sample, the reader has stopped and the context is
\* cancelled, Scrape can still take a step (abandon the sample and return).
C3_WriteRespectsCancellation ==
    (pc = "send" /\ consumerStopped /\ ctxDone) => ENABLED ScrapeStep

\* The series of a decoded body that have at least one data point, as
\* <<item, series>> positions.
DataSeries(body) ==
    UNION { { <<a, b>> : b \in { b \in 1..Len(body.Items[a].TimeSeries) :
                                   Len(body.Items[a].TimeSeries[b].Data) > 0 } } :
            a \in 1..Len(body.Items) }

\* The value of the data point at the last position of a series.
LastPositionValue(body, pos) ==
    LET data == body.Items[pos[1]].TimeSeries[pos[2]].Data
    IN  data[Len(data)].value

RECURSIVE SumOfLastValues(_, _)
SumOfLastValues(body, positions) ==
    IF positions = {} THEN 0
    ELSE LET pos == CHOOSE q \in positions : TRUE
         IN  LastPositionValue(body, pos)
                 + SumOfLastValues(body, positions \ {pos})

\* fetchMetric got a 200 answer whose body decodes.
FetchedDecoded ==
    /\ fetched.resp.StatusCode = StatusOK
    /\ fetched.resp.Body.decodes

IsPrefix(a, b) ==
    /\ Len(a) <= Len(b)
    /\ \A k \in 1..Len(a) : a[k] = b[k]

\* C4: a series without data points contributes nothing. createZKMetric
\* writes a sample only for a series that has data, and a fetchMetric answer
\* in which no series has data makes Collect send no sample.
C4_EmptySeriesEmitNothing ==
    /\ pc = "send" => Len(jsonParsed[tsIndex + 1].data) > 0
    /\ IsPrefix(emitted, expected)
    /\ (FetchedDecoded /\ DataSeries(fetched.resp.Body) = {}) => ~fetched.sent

\* C5: the value taken for a series is the value of the data point at the
\* last position of its list, whatever the timestamps. createZKMetric's
\* sample holds the last point's value of its series, and fetchMetric returns
\* the last-position values of the series that have data (added up).
C5_LastPointByPosition ==
    /\ pc = "send" =>
          LET data == jsonParsed[tsIndex + 1].data
          IN  sample.value = data[Len(data)].value
    /\ (FetchedDecoded /\ fetched.result.err = "nil") =>
          fetched.result.value =
              SumOfLastValues(fetched.resp.Body, DataSeries(fetched.resp.Body))

\* Collect has sent the value of a single series whose last point is not
\* its latest one.
C5_Witness ==
    /\ FetchedDecoded
    /\ fetched.sent
    /\ Cardinality(DataSeries(fetched.resp.Body)) = 1
    /\ fetched.result.value = TwoPoints[Len(TwoPoints)].value
    /\ TwoPoints[1].timestamp > TwoPoints[Len(TwoPoints)].timestamp
    /\ collected # <<>>
    /\ collected[Len(collected)].value = fetched.result.value

LabelCountOK(m) == Len(m.labelValues) = Len(m.desc.variableLabels)

\* C6: every sample of Scrape and of Collect carries as many label values
\* as its descriptor declares labels, for every binding of the table and
\* every fetch of Collect, and MustNewConstMetric never panics.
C6_LabelCountInvariant ==
    /\ pc # "panic"
    /\ cpc # "panic"
    /\ \A k \in 1..Len(emitted) : LabelCountOK(emitted[k])
    /\ \A k \in 1..Len(collected) : LabelCountOK(collected[k])
    /\ pc = "send" => LabelCountOK(sample)
    /\ \A k \in 1..TableLen :
          \A sr \in SeriesOf(zkQueryVariableRelationship[k].Query) :
              LabelCountOK(ZKSample(zkQueryVariableRelationship[k].Metric_struct,
                                    <<sr>>, 0))
    /\ \A k \in 1..Len(CollectPlan) :
          Len(CollectPlan[k].labelValues) = Len(CollectPlan[k].desc.variableLabels)

\* Scrape has returned after writing samples of more than one series.
C6_Witness ==
    /\ entry = "Scrape"
    /\ pc = "done"
    /\ Len(emitted) >= 2

\* C7: no sample carries an empty string for a declared label, and the
\* samples of the aggregate bindings carry no label at all.
C7_NoEmptyLabelValue ==
    \A k \in 1..Len(emitted) :
        /\ \A j \in 1..Len(emitted[k].labelValues) :
               emitted[k].labelValues[j] # ""
        /\ (\E b \in 1..TableLen :
               /\ zkQueryVariableRelationship[b].Query \in AggregateQueries
               /\ zkQueryVariableRelationship[b].Metric_struct = emitted[k].desc)
           => emitted[k].labelValues = <<>>

Range(f) == {f[k] : k \in DOMAIN f}

\* The descriptors of the binding table.
TableDescs == {zkQueryVariableRelationship[k].Metric_struct : k \in 1..TableLen}

\* C8: every sample Collect sends uses a descriptor Describe sends, and
\* every sample Scrape writes uses a descriptor of its binding table and is
\* a sample of a queried series (the tally is not written as a sample).
C8_EmittedDescriptorsDeclared ==
    /\ \A k \in 1..Len(collected) : collected[k].desc \in Range(DescribeSends)
    /\ \A k \in 1..Len(emitted) : emitted[k].desc \in TableDescs
    /\ IsPrefix(emitted, expected)

\* Describe was called and a Collect call has sent all four samples.
C8_Witness ==
    /\ entry = "Collector"
    /\ described # NotDescribed
    /\ Len(collected) = Len(CollectPlan)

\* C9: Describe is stable. Once Describe has sent its descriptors, no step
\* (a later Describe, with any Collect steps and answers in between) changes
\* what Describe sends.
C9_DescribeStable ==
    [][described # NotDescribed => described' = described]_vars

\* Describe was called, a Collect call has since sent a sample and is still
\* running, and Describe can be called again.
C9_Witness ==
    /\ described # NotDescribed
    /\ cpc = "fetch"
    /\ Len(collected) > 0
    /\ ENABLED Describe

\* The fully-qualified names of the descriptors of the binding table and of
\* the collector are pairwise distinct.
DescriptorNamesUnique ==
    /\ \A a, b \in 1..TableLen :
          zkQueryVariableRelationship[a].Metric_struct.fqName
              = zkQueryVariableRelationship[b].Metric_struct.fqName => a = b
    /\ \A a, b \in DOMAIN zc : zc[a].fqName = zc[b].fqName => a = b

\* The last fetchMetric call ended without a usable answer: no response at
\* all, a non-success status, or a body that does not decode.
FetchedFailure ==
    /\ fetched.metricIdx # 0
    /\ \/ fetched.resp = NoHttpResponse
       \/ fetched.resp.StatusCode # StatusOK
       \/ ~fetched.resp.Body.decodes

\* C11: a failed query is unanswered, never zero. A binding of Scrape whose
\* query failed is counted as one error and no success and has no sample on
\* the channel, and Scrape still returns nil; a fetchMetric call that got no
\* response, a non-success status or an undecodable body returns an error,
\* Collect sends no sample for its descriptor and goes on.
C11_FailedQueryUnanswered ==
    /\ errorQueries = Cardinality(FailedBindings)
    /\ successQueries <= Len(attempted) - Cardinality(FailedBindings)
    /\ \A f \in failed : \A k \in 1..Len(emitted) :
          emitted[k].desc # zkQueryVariableRelationship[f.binding].Metric_struct
    /\ pc = "done" =>
          /\ scrapeRet = "nil"
          /\ successQueries = NumScraped - Cardinality(FailedBindings)
    /\ FetchedFailure =>
          /\ fetched.result.err # "nil"
          /\ ~fetched.sent
          /\ \A k \in 1..Len(collected) :
                collected[k].desc # CollectPlan[fetched.metricIdx].desc
          /\ cpc # "panic"
          /\ metricIdx = IF fetched.metricIdx < Len(CollectPlan)
                         THEN fetched.metricIdx + 1 ELSE 0

\* Upstream answered the last fetch of a Collect call with status 500 after
\* the three fetches before it were answered: Collect has returned with the
\* three samples only.
C11_Witness ==
    /\ fetched.metricIdx = Len(CollectPlan)
    /\ fetched.resp.StatusCode \in ErrorStatuses
    /\ cpc = "ready"
    /\ Len(collected) = Len(CollectPlan) - 1

\* The samples the channel's reader received from invocation p, in order.
WrittenBy(p) ==
    LET s == SelectSeq(chanLog, LAMBDA e : e.from = p)
    IN  [k \in 1..Len(s) |-> s[k].m]

\* The bindings invocation p has finished.
BindingsDone(p) ==
    IF frames[p].pc = "idle" THEN 0
    ELSE IF frames[p].pc \in {"exit", "done"}
    THEN LastIndex - ConcFirstIndex + 1
    ELSE frames[p].i - ConcFirstIndex

\* C12: invocations of Scrape running at the same time on one channel do
\* not disturb each other. In every interleaving the samples the channel
\* received from an invocation are exactly the samples of that invocation's
\* own answered queries, in its own order; each invocation's counters count
\* its own bindings only; and while an invocation has not returned some
\* step can be taken (no deadlock while the channel is being read).
C12_ConcurrentInvocationsIndependent ==
    /\ \A p \in Invocations :
          /\ IsPrefix(WrittenBy(p), expectedBy[p])
          /\ frames[p].pc \in {"query", "exit", "done"} =>
                WrittenBy(p) = expectedBy[p]
          /\ frames[p].successQueries + frames[p].errorQueries
                = BindingsDone(p)
          /\ frames[p].errorQueries = Cardinality(failedBy[p])
          /\ frames[p].pc # "panic"
    /\ (\E p \in Invocations : frames[p].pc # "done") => ENABLED ConcNext

\* Both invocations have returned and both wrote to the channel: the
\* sample of the second invocation was received before the sample of the
\* first.
C12_Witness ==
    /\ \A p \in Invocations : frames[p].pc = "done"
    /\ \E a, b \in 1..Len(chanLog) :
          /\ a < b
          /\ chanLog[a].from = "second"
          /\ chanLog[b].from = "first"

\* C13: the bindings are attempted once each and in table order. The
\* query of a binding is issued only when the binding before it has
\* finished (all its samples written, or failed) and has been counted; a
\* failed binding is followed by the next one, so Scrape ends only after
\* the last binding; and in Collect every fetch, failed or not, is followed
\* by the next fetch of the plan, Collect returning after the last only.
C13_BindingsInTableOrder ==
    /\ IsPrefix(attempted, ScrapedInOrder)
    /\ pc = "query" =>
          /\ i = FirstIndex + Len(attempted)
          /\ emitted = expected
          /\ successQueries + errorQueries = Len(attempted)
    /\ pc \in {"series", "send"} =>
          /\ attempted # <<>>
          /\ attempted[Len(attempted)] = i
    /\ pc \in {"exit", "done"} => attempted = ScrapedInOrder
    /\ (fetched.metricIdx # 0 /\ cpc # "panic") =>
          metricIdx = IF fetched.metricIdx < Len(CollectPlan)
                      THEN fetched.metricIdx + 1 ELSE 0
    /\ (cpc = "ready" /\ fetched.metricIdx # 0) =>
          fetched.metricIdx = Len(CollectPlan)

\* Scrape has returned after its first binding failed and its last binding
\* wrote samples.
C13_Witness ==
    /\ pc = "done"
    /\ FirstIndex \in FailedBindings
    /\ LastIndex \notin FailedBindings
    /\ attempted = ScrapedInOrder
    /\ \E k \in 1..Len(emitted) :
          emitted[k].desc = zkQueryVariableRelationship[LastIndex].Metric_struct

\* C14: no value is computed from more than one series. While
\* createZKMetric runs, the samples written so far plus one sample for each
\* remaining series that has data are exactly the samples of the answered
\* queries; and a sample Collect sends for a fetchMetric answer holds the
\* own last value of every series of that answer that has data, so never a
\* sum over several series.
C14_NoAggregationAcrossSeries ==
    /\ pc = "series" =>
          emitted \o SamplesOf(zkQueryVariableRelationship[i].Metric_struct,
                               jsonParsed, tsIndex) = expected
    /\ (FetchedDecoded /\ fetched.sent) =>
          \A pos \in DataSeries(fetched.resp.Body) :
              fetched.result.value = LastPositionValue(fetched.resp.Body, pos)

\* C15: the response body is released on every exit of fetchMetric. A body
\* is open exactly while fetchMetric holds a response it has not returned
\* from; once fetchMetric has returned (on a non-success status, on a decode
\* error, normally, or without a response) no body is open, and none is
\* closed that was not open.
C15_ResponseBodyClosed ==
    /\ openBodies = IF cpc = "response" THEN 1 ELSE 0
    /\ cpc = "response" <=> httpResp # NoHttpResponse
    /\ (fetched.metricIdx # 0 /\ cpc # "response") => openBodies = 0

\* Collect has returned after fetchMetric calls that ended on a decode
\* error for the last metric; no body is open.
C15_Witness ==
    /\ cpc = "ready"
    /\ fetched.metricIdx = Len(CollectPlan)
    /\ fetched.resp.StatusCode = StatusOK
    /\ fetched.result.err = "decode error"
    /\ openBodies = 0

\* The bindings Scrape has counted: those attempted, less the one whose
\* series loop is still running.
BindingsProcessed ==
    IF pc \in {"series", "send", "panic"}
    THEN Len(attempted) - 1
    ELSE Len(attempted)

\* C16: the result of a binding is fixed before its first sample and does
\* not depend on its samples. The two counters add up to the bindings
\* processed so far; the bindings counted as errors are exactly those whose
\* query or series count failed, and none of them has a sample on the
\* channel; every other processed binding is a success, whatever the number
\* of samples it wrote; and a binding inside its series loop is not, and
\* does not become, an error.
C16_ClassificationBeforeSamples ==
    /\ successQueries + errorQueries = BindingsProcessed
    /\ errorQueries = Cardinality(FailedBindings)
    /\ \A f \in failed :
          /\ f.binding \in Range(attempted)
          /\ \A k \in 1..Len(emitted) :
                emitted[k].desc
                    # zkQueryVariableRelationship[f.binding].Metric_struct
    /\ pc \in {"series", "send"} =>
          /\ i \notin FailedBindings
          /\ ~ENABLED QueryFails
          /\ ~ENABLED SeriesCountFails

\* Scrape is at the end of the series loop of a binding all of whose series
\* were skipped, after one binding failed and one succeeded, with no sample
\* written at all.
C16_Witness ==
    /\ pc = "series"
    /\ Len(jsonParsed) > 0
    /\ tsIndex = Len(jsonParsed)
    /\ \A k \in 1..Len(jsonParsed) : Len(jsonParsed[k].data) = 0
    /\ successQueries = 1
    /\ errorQueries = 1
    /\ emitted = <<>>

====
